---- MODULE Spec2Model ----
(***************************************************************************)
(* Model of tools/devheader.py: the generator of per-device C headers from *)
(* a JSON layout file.                                                     *)
(*                                                                         *)
(* A JSON scalar is a record [t, s]: its type ("int" or "str") and its     *)
(* text, so that "%s" formatting (which drops the type) and the Python     *)
(* comparisons (which do not) are different things.  A file's content is   *)
(* the sequence of the chunks the write() calls put in it: equal chunk     *)
(* sequences are byte-identical files.  Device names are sequences of      *)
(* characters, so that upper() and the ".h" suffix are computed.           *)
(***************************************************************************)
EXTENDS Integers, Sequences, FiniteSets, TLC

VARIABLES
    argc,        \* len(sys.argv)
    jsonfile,    \* what <filename.json> holds: "missing", "invalid" or a document
    pc,          \* position of the script
    dirExists,   \* whether <outdir> exists
    files,       \* the files of <outdir>: file name -> content
    data,        \* the loaded document (line 115)
    i,           \* position of the loop of line 128 in data (1-based)
    stdout,      \* what was printed
    exitCode,    \* exit status of the process, -1 while it runs
    error,       \* the uncaught exception that ended the run, if any
    opened,      \* the files opened for writing by this run, in order
    jsonOpened,  \* whether this run opened <filename.json>
    run,         \* "first" or "second" invocation
    startFiles,  \* files when this invocation started
    startDir,    \* dirExists when this invocation started
    prevArgc,    \* argc of the previous invocation
    prevJson     \* jsonfile of the previous invocation

vars == <<argc, jsonfile, pc, dirExists, files, data, i, stdout, exitCode,
          error, opened, jsonOpened, run, startFiles, startDir, prevArgc,
          prevJson>>

(***************************************************************************)
(* Bounds                                                                  *)
(***************************************************************************)
MaxDevices == 2

(***************************************************************************)
(* JSON values                                                             *)
(***************************************************************************)
IntVal(s) == [t |-> "int", s |-> s]

StrVal(s) == [t |-> "str", s |-> s]

NoVal == [t |-> "none", s |-> ""]

\* variant of EqualsZero: compares the text, so the string "0" counts as no IRQ
EqualsZeroText(v) == v.s = "0"

\* Python's `irq != 0` negated: only the integer 0 equals 0 (a string never does)
EqualsZero(v) == v.t = "int" /\ v.s = "0"

\* "%s" % v
FormatS(v) == v.s

\* "%d" % v is a TypeError for a string
FormatDOk(v) == v.t = "int"

Gpio(port, pin) == [port |-> IntVal(port), pin |-> IntVal(pin)]

\* a device descriptor: `keys` are the keys the JSON object holds
Dev(keys, address, size, irqs, irqs_literal, gpios) ==
    [keys |-> keys, address |-> address, size |-> size, irqs |-> irqs,
     irqs_literal |-> irqs_literal, gpios |-> gpios]

\* `key in dev`; dev[key] raises KeyError otherwise
Has(dev, key) == key \in dev.keys

(***************************************************************************)
(* Errors                                                                  *)
(***************************************************************************)
NoErr == [kind |-> "none", key |-> ""]

Err(kind, key) == [kind |-> kind, key |-> key]

(***************************************************************************)
(* Device names, file names, include guards                                *)
(***************************************************************************)
DeviceNames == { <<"u", "1">>, <<"d", "m", "a">>, <<"S", "p", "i">> }

\* str.upper() on one character
UpperChar(c) ==
    CASE c = "u" -> "U"
      [] c = "d" -> "D"
      [] c = "m" -> "M"
      [] c = "a" -> "A"
      [] c = "p" -> "P"
      [] c = "i" -> "I"
      [] OTHER -> c

Upper(name) == [k \in DOMAIN name |-> UpperChar(name[k])]

DevFileName(device) == device \o <<".", "h">>

\* variant of DevHeaderName: the guard without upper()
DevHeaderNameVerbatim(device) == device \o <<"_", "H", "_">>

DevHeaderName(device) == Upper(device) \o <<"_", "H", "_">>

DevinfoFileName == <<"d", "e", "v", "i", "n", "f", "o", ".", "h">>

(***************************************************************************)
(* Chunks: one per write() call                                            *)
(***************************************************************************)
Chunk(op, name, a, b) == [op |-> op, name |-> name, a |-> a, b |-> b]

CHeader == Chunk("c_header", <<>>, "", "")

CDefinition == Chunk("c_definition", <<>>, "", "")

CFooter == Chunk("c_footer", <<>>, "", "")

DevinfoContent ==
    << CHeader,
       Chunk("#ifndef DEVINFO_H_", <<>>, "", ""),
       Chunk("# define DEVINFO_H_", <<>>, "", ""),
       CDefinition,
       Chunk("#endif/*!DEVINFO_H_*/", <<>>, "", "") >>

(***************************************************************************)
(* Emission of one device header (lines 135-180).  An emission state is    *)
(* [out, err]: the chunks written so far and the exception raised, if any. *)
(* After an exception nothing more is written; the `with` block closes the *)
(* file, which flushes what was written before the exception.              *)
(***************************************************************************)
Write(st, chunk) ==
    IF st.err # NoErr THEN st ELSE [st EXCEPT !.out = Append(@, chunk)]

Raise(st, e) ==
    IF st.err # NoErr THEN st ELSE [st EXCEPT !.err = e]

\* variant of IsUnmappable: compares size with the number 0
IsUnmappableNumber(dev) == dev.size = IntVal("0")

\* line 130
IsUnmappable(dev) == dev.size = StrVal("0")

\* lines 137-141
Preamble(device) ==
    << CHeader,
       Chunk("#ifndef", DevHeaderName(device), "", ""),
       Chunk("# define", DevHeaderName(device), "", ""),
       Chunk("#include generated/devinfo.h", <<>>, "", "") >>

\* line 148, one iteration with irq != 0; index is 1-based here
DefineIrq(dev, index, st) ==
    IF ~Has(dev, "irqs_literal") THEN Raise(st, Err("KeyError", "irqs_literal"))
    ELSE IF index > Len(dev.irqs_literal)
         THEN Raise(st, Err("IndexError", "irqs_literal"))
    ELSE IF ~FormatDOk(dev.irqs_literal[index])
         THEN Raise(st, Err("TypeError", "irqs_literal"))
    ELSE Write(st, Chunk("#define", <<>>, FormatS(dev.irqs[index]),
                         FormatS(dev.irqs_literal[index])))

\* lines 145-148
RECURSIVE DefineLoop(_, _, _)
DefineLoop(dev, index, st) ==
    IF st.err # NoErr \/ index > Len(dev.irqs) THEN st
    ELSE IF EqualsZero(dev.irqs[index]) THEN DefineLoop(dev, index + 1, st)
    ELSE DefineLoop(dev, index + 1, DefineIrq(dev, index, st))

\* lines 144-148
Defines(dev, st) ==
    IF Has(dev, "irqs") THEN DefineLoop(dev, 1, st)
    ELSE Raise(st, Err("KeyError", "irqs"))

\* lines 160-161
RECURSIVE IrqsTail(_, _, _)
IrqsTail(irqs, k, st) ==
    IF k > Len(irqs) THEN st
    ELSE IrqsTail(irqs, k + 1, Write(st, Chunk(", irq", <<>>, FormatS(irqs[k]), "")))

\* lines 157-162
IrqsInit(dev, st) ==
    LET irqs == dev.irqs
        s1 == Write(st, Chunk(".irqs[] = {", <<>>, "", ""))
        s2 == IF Len(irqs) = 0 THEN Raise(s1, Err("IndexError", "irqs"))
              ELSE Write(s1, Chunk("    irq", <<>>, FormatS(irqs[1]), ""))
        s3 == IrqsTail(irqs, 2, s2)
    IN  Write(s3, Chunk("},", <<>>, "", ""))

GpioSlots == 4

ZeroPair == Chunk("{ port, pin },", <<>>, "0", "0")

\* lines 167-168
RECURSIVE GpioPairs(_, _, _)
GpioPairs(gpios, k, st) ==
    IF k > Len(gpios) THEN st
    ELSE GpioPairs(gpios, k + 1,
                   Write(st, Chunk("{ port, pin },", <<>>,
                                   FormatS(gpios[k].port), FormatS(gpios[k].pin))))

\* variant of GpioPadding: range(len(gpios), 3)
RECURSIVE GpioPaddingShort(_, _)
GpioPaddingShort(n, st) ==
    IF n >= GpioSlots - 1 THEN st ELSE GpioPaddingShort(n + 1, Write(st, ZeroPair))

\* lines 169-171: for i in range(len(gpios), 4)
RECURSIVE GpioPadding(_, _)
GpioPadding(n, st) ==
    IF n >= GpioSlots THEN st ELSE GpioPadding(n + 1, Write(st, ZeroPair))

\* lines 164-176
GpiosInit(dev, st) ==
    LET s1 == Write(st, Chunk(".gpios[] = {", <<>>, "", ""))
        s2 == IF Has(dev, "gpios")
              THEN GpioPadding(Len(dev.gpios), GpioPairs(dev.gpios, 1, s1))
              ELSE GpioPadding(0, s1)
    IN  Write(s2, Chunk("}", <<>>, "", ""))

\* lines 151-155
Declaration(device, dev, st) ==
    LET s1 == Write(st, Chunk("static const struct user_driver_device_infos",
                              device, "", ""))
        s2 == IF Has(dev, "address")
              THEN Write(s1, Chunk(".address", <<>>, FormatS(dev.address), ""))
              ELSE Raise(s1, Err("KeyError", "address"))
    IN  Write(s2, Chunk(".size", <<>>, FormatS(dev.size), ""))

\* lines 137-180: what the file holds when it is closed, and the exception
DeviceHeader(device, dev) ==
    LET s0 == [out |-> Preamble(device), err |-> NoErr]
        s1 == Defines(dev, s0)
        s2 == Declaration(device, dev, s1)
        s3 == IrqsInit(dev, s2)
        s4 == GpiosInit(dev, s3)
        s5 == Write(s4, Chunk("};", <<>>, "", ""))
    IN  Write(s5, CFooter)

\* variant of WriteFile: open(path, "a")
WriteFileAppend(fs, fname, content) ==
    (fname :> (IF fname \in DOMAIN fs THEN fs[fname] \o content ELSE content)) @@ fs

\* open(path, "w") ... close(): the file is created or truncated, then holds content
WriteFile(fs, fname, content) == (fname :> content) @@ fs

(***************************************************************************)
(* Input documents                                                         *)
(***************************************************************************)
Z == IntVal("0")

AllKeys == {"address", "size", "irqs", "irqs_literal", "gpios"}

\* "dma1" of the layout: not mappable
DmaDev == Dev({"address", "size", "irqs"}, StrVal("0x40020000"), StrVal("0"),
              <<Z, Z, Z, Z>>, <<>>, <<>>)

\* not mappable, and nothing but a size
BareDmaDev == Dev({"size"}, NoVal, StrVal("0"), <<>>, <<>>, <<>>)

UsartDev == Dev(AllKeys, StrVal("0x40011000"), StrVal("0x400"),
                <<StrVal("USART1_IRQ"), Z, Z, Z>>,
                <<IntVal("37"), Z, Z, Z>>,
                <<Gpio("1", "9"), Gpio("1", "10")>>)

UartDev == Dev(AllKeys, StrVal("0x40004400"), StrVal("0x400"),
               <<StrVal("UART1_IRQ"), Z, StrVal("UART1_ERR_IRQ"), Z>>,
               <<IntVal("37"), Z, IntVal("38"), Z>>,
               <<Gpio("2", "5")>>)

\* no irq line, no irqs_literal, no gpios
PlainDev == Dev({"address", "size", "irqs"}, StrVal("0x40023000"), StrVal("0x400"),
                <<Z, Z>>, <<>>, <<>>)

\* size is the number 0, an irq named by the string "0", all the gpios
OddDev == Dev(AllKeys, IntVal("1073887232"), IntVal("0"),
              <<StrVal("0")>>, <<IntVal("5")>>,
              <<Gpio("0", "1"), Gpio("0", "2"), Gpio("0", "3"), Gpio("0", "4")>>)

EmptyGpiosDev == Dev(AllKeys, StrVal("0x40012000"), StrVal("0x100"),
                     <<Z, StrVal("ADC_IRQ"), Z>>, <<Z, IntVal("18"), Z>>, <<>>)

NoIrqsDev == Dev({"address", "size", "gpios"}, StrVal("0x40011000"), StrVal("0x400"),
                 <<>>, <<>>, <<Gpio("1", "9")>>)

EmptyIrqsDev == Dev({"address", "size", "irqs"}, StrVal("0x40011000"),
                    StrVal("0x400"), <<>>, <<>>, <<>>)

NoLiteralDev == Dev({"address", "size", "irqs"}, StrVal("0x40011000"),
                    StrVal("0x400"), <<Z, StrVal("USART1_IRQ")>>, <<>>, <<>>)

ShortLiteralDev == Dev({"address", "size", "irqs", "irqs_literal"},
                       StrVal("0x40011000"), StrVal("0x400"),
                       <<StrVal("A_IRQ"), StrVal("B_IRQ")>>, <<IntVal("37")>>, <<>>)

StrLiteralDev == Dev({"address", "size", "irqs", "irqs_literal"},
                     StrVal("0x40011000"), StrVal("0x400"),
                     <<StrVal("A_IRQ")>>, <<StrVal("37")>>, <<>>)

NoAddressDev == Dev({"size", "irqs", "irqs_literal"}, NoVal, StrVal("0x400"),
                    <<StrVal("USART1_IRQ"), Z>>, <<IntVal("37"), Z>>, <<>>)

NoSizeDev == Dev({"address", "irqs"}, StrVal("0x40011000"), NoVal,
                 <<Z, Z, Z, Z>>, <<>>, <<>>)

Devices == { DmaDev, BareDmaDev, UsartDev, UartDev, PlainDev, OddDev,
             EmptyGpiosDev, NoIrqsDev, EmptyIrqsDev, NoLiteralDev,
             ShortLiteralDev, StrLiteralDev, NoAddressDev, NoSizeDev }

\* the devices of the documents of a run that follows another
RerunDevices == { DmaDev, UsartDev, NoIrqsDev }

\* an OrderedDict: a sequence of [name, dev] with distinct names
DocumentsOf(names, devs) ==
    { d \in UNION { [1..n -> [name : names, dev : devs]] : n \in 0..MaxDevices } :
        \A j, k \in DOMAIN d : j # k => d[j].name # d[k].name }

Documents == DocumentsOf(DeviceNames, Devices)

RerunDocuments == DocumentsOf({ <<"u", "1">>, <<"d", "m", "a">> }, RerunDevices)

\* what <filename.json> is: absent, not JSON, or a JSON object
JsonFiles(docs) ==
    { [kind |-> "missing", doc |-> <<>>], [kind |-> "invalid", doc |-> <<>>] }
    \cup { [kind |-> "object", doc |-> d] : d \in docs }

\* the values of len(sys.argv) tried: 0 to 3 arguments
ArgCounts == {1, 2, 3, 4}

(***************************************************************************)
(* The script                                                              *)
(***************************************************************************)
InitWith(docs) ==
    /\ argc \in ArgCounts
    /\ jsonfile \in JsonFiles(docs)
    /\ pc = "argv"
    /\ dirExists \in BOOLEAN
    /\ files = <<>>
    /\ data = <<>>
    /\ i = 0
    /\ stdout = <<>>
    /\ exitCode = -1
    /\ error = NoErr
    /\ opened = <<>>
    /\ jsonOpened = FALSE
    /\ run = "first"
    /\ startFiles = files
    /\ startDir = dirExists
    /\ prevArgc = 0
    /\ prevJson = [kind |-> "none", doc |-> <<>>]

Init == InitWith(Documents)

InitTwice == InitWith(RerunDocuments)

env == <<argc, jsonfile, run, startFiles, startDir, prevArgc, prevJson>>

\* sys.exit(code), or an uncaught exception e (exit status 1)
Exit(code, e) ==
    /\ pc' = "exited"
    /\ exitCode' = code
    /\ error' = e

\* variant of CheckArgs: len(sys.argv) < 3
CheckArgsTooFew ==
    /\ pc = "argv"
    /\ IF argc < 3
       THEN /\ stdout' = Append(stdout, "usage")
            /\ Exit(1, Err("SystemExit", ""))
       ELSE /\ pc' = "makedirs"
            /\ UNCHANGED <<stdout, exitCode, error>>
    /\ UNCHANGED <<dirExists, files, data, i, opened, jsonOpened, env>>

\* lines 24-30
CheckArgs ==
    /\ pc = "argv"
    /\ IF argc # 3
       THEN /\ stdout' = Append(stdout, "usage")
            /\ Exit(1, Err("SystemExit", ""))
       ELSE /\ pc' = "makedirs"
            /\ UNCHANGED <<stdout, exitCode, error>>
    /\ UNCHANGED <<dirExists, files, data, i, opened, jsonOpened, env>>

\* lines 110-111
PrepareOutdir ==
    /\ pc = "makedirs"
    /\ dirExists' = TRUE
    /\ pc' = "load"
    /\ UNCHANGED <<files, data, i, stdout, exitCode, error, opened, jsonOpened, env>>

\* lines 114-115
LoadJson ==
    /\ pc = "load"
    /\ CASE jsonfile.kind = "missing" ->
              /\ Exit(1, Err("FileNotFoundError", ""))
              /\ UNCHANGED <<data, jsonOpened>>
         [] jsonfile.kind = "invalid" ->
              /\ jsonOpened' = TRUE
              /\ Exit(1, Err("JSONDecodeError", ""))
              /\ UNCHANGED data
         [] OTHER ->
              /\ jsonOpened' = TRUE
              /\ data' = jsonfile.doc
              /\ pc' = "devinfo"
              /\ UNCHANGED <<exitCode, error>>
    /\ UNCHANGED <<dirExists, files, i, stdout, opened, env>>

\* variant of EmitShared: devinfo.h is written only when there is a device
EmitSharedIfDevices ==
    /\ pc = "devinfo"
    /\ IF Len(data) > 0
       THEN /\ files' = WriteFile(files, DevinfoFileName, DevinfoContent)
            /\ opened' = Append(opened, DevinfoFileName)
       ELSE UNCHANGED <<files, opened>>
    /\ i' = 1
    /\ pc' = "devices"
    /\ UNCHANGED <<dirExists, data, stdout, exitCode, error, jsonOpened, env>>

\* lines 121-126
EmitShared ==
    /\ pc = "devinfo"
    /\ files' = WriteFile(files, DevinfoFileName, DevinfoContent)
    /\ opened' = Append(opened, DevinfoFileName)
    /\ i' = 1
    /\ pc' = "devices"
    /\ UNCHANGED <<dirExists, data, stdout, exitCode, error, jsonOpened, env>>

\* variant of GenerateDevice: an exception is caught, the loop goes on
GenerateDeviceContinue ==
    /\ pc = "devices"
    /\ i <= Len(data)
    /\ LET device == data[i].name
           dev == data[i].dev
           st == DeviceHeader(device, dev)
       IN  IF ~Has(dev, "size") \/ IsUnmappable(dev)
           THEN UNCHANGED <<files, opened>>
           ELSE /\ files' = WriteFile(files, DevFileName(device), st.out)
                /\ opened' = Append(opened, DevFileName(device))
    /\ i' = i + 1
    /\ UNCHANGED <<pc, exitCode, error, dirExists, data, stdout, jsonOpened, env>>

\* lines 128-180, one iteration
GenerateDevice ==
    /\ pc = "devices"
    /\ i <= Len(data)
    /\ LET device == data[i].name
           dev == data[i].dev
           st == DeviceHeader(device, dev)
       IN  IF ~Has(dev, "size")
           THEN /\ Exit(1, Err("KeyError", "size"))
                /\ UNCHANGED <<files, opened, i>>
           ELSE IF IsUnmappable(dev)
           THEN /\ i' = i + 1
                /\ UNCHANGED <<files, opened, pc, exitCode, error>>
           ELSE /\ files' = WriteFile(files, DevFileName(device), st.out)
                /\ opened' = Append(opened, DevFileName(device))
                /\ IF st.err = NoErr
                   THEN /\ i' = i + 1
                        /\ UNCHANGED <<pc, exitCode, error>>
                   ELSE /\ Exit(1, st.err)
                        /\ UNCHANGED i
    /\ UNCHANGED <<dirExists, data, stdout, jsonOpened, env>>

\* line 183: generate_c() returns, the script ends
Finish ==
    /\ pc = "devices"
    /\ i > Len(data)
    /\ Exit(0, NoErr)
    /\ UNCHANGED <<dirExists, files, data, i, stdout, opened, jsonOpened, env>>

\* the script is invoked again on the same <outdir>
Rerun ==
    /\ pc = "exited"
    /\ run = "first"
    /\ run' = "second"
    /\ prevArgc' = argc
    /\ prevJson' = jsonfile
    /\ argc' \in ArgCounts
    /\ jsonfile' \in JsonFiles(RerunDocuments)
    /\ startFiles' = files
    /\ startDir' = dirExists
    /\ pc' = "argv"
    /\ data' = <<>>
    /\ i' = 0
    /\ stdout' = <<>>
    /\ exitCode' = -1
    /\ error' = NoErr
    /\ opened' = <<>>
    /\ jsonOpened' = FALSE
    /\ UNCHANGED <<dirExists, files>>

Next ==
    \/ CheckArgs
    \/ PrepareOutdir
    \/ LoadJson
    \/ EmitShared
    \/ GenerateDevice
    \/ Finish

NextTwice ==
    \/ Next
    \/ Rerun

Spec == Init /\ [][Next]_vars

SpecTwice == InitTwice /\ [][NextTwice]_vars

(***************************************************************************)
(* Vocabulary of the properties                                            *)
(***************************************************************************)
Count(seq, x) == Cardinality({ k \in DOMAIN seq : seq[k] = x })

Positions(f, op) == { k \in DOMAIN f : f[k].op = op }

DeclOp == "static const struct user_driver_device_infos"

\* the run got as far as generate_c()
Generating == pc = "devices" \/ (pc = "exited" /\ i >= 1)

\* the loop of line 128 is over its j-th device, by completing it or by raising in it
Examined(j) == Generating /\ (j < i \/ (j = i /\ pc = "exited" /\ exitCode = 1))

SizeIsZeroString(dev) == Has(dev, "size") /\ dev.size = [t |-> "str", s |-> "0"]

Mappable(dev) == Has(dev, "size") /\ dev.size # [t |-> "str", s |-> "0"]

\* a header from its license block to its closing #endif, with the declaration of device
CompleteHeader(f, device) ==
    /\ Len(f) >= 3
    /\ f[1] = CHeader
    /\ f[Len(f)] = CFooter
    /\ \E k \in 3..(Len(f) - 1) : f[k] = Chunk(DeclOp, device, "", "")

\* (C1, as stated) after a run no <device>.h exists for a device whose size is "0"
C1_NoHeaderForSizeZero ==
    pc = "exited" =>
        \A j \in DOMAIN data :
            SizeIsZeroString(data[j].dev) =>
                /\ Count(opened, DevFileName(data[j].name)) = 0
                /\ DevFileName(data[j].name) \notin DOMAIN files

\* (C1, amended) a run never opens <device>.h for a device whose size is the string
\* "0": the file exists after the run only if it existed before the run, unchanged
C1_SizeZeroNotWritten ==
    \A j \in DOMAIN data :
        SizeIsZeroString(data[j].dev) =>
            LET f == DevFileName(data[j].name)
            IN  /\ Count(opened, f) = 0
                /\ f \in DOMAIN files <=> f \in DOMAIN startFiles
                /\ f \in DOMAIN files => files[f] = startFiles[f]

C1_Witness ==
    /\ pc = "exited"
    /\ exitCode = 0
    /\ \E j \in DOMAIN data :
        /\ SizeIsZeroString(data[j].dev)
        /\ DevFileName(data[j].name) \in DOMAIN files

C2_Guard(device) ==
    CASE device = <<"u", "1">> -> <<"U", "1", "_", "H", "_">>
      [] device = <<"d", "m", "a">> -> <<"D", "M", "A", "_", "H", "_">>
      [] device = <<"S", "p", "i">> -> <<"S", "P", "I", "_", "H", "_">>

\* (C2) after a successful run every device whose size is not "0" has exactly one
\* <device>.h, opened once, holding the declaration of <device>_dev_infos between
\* the guard <DEVICE>_H_ and the closing #endif
C2_OneHeaderPerMappableDevice ==
    (pc = "exited" /\ exitCode = 0) =>
        \A j \in DOMAIN data :
            Mappable(data[j].dev) =>
                LET device == data[j].name
                    fname == DevFileName(device)
                IN  /\ fname = device \o <<".", "h">>
                    /\ fname \in DOMAIN files
                    /\ Count(opened, fname) = 1
                    /\ CompleteHeader(files[fname], device)
                    /\ files[fname][2] = Chunk("#ifndef", C2_Guard(device), "", "")
                    /\ files[fname][3] = Chunk("# define", C2_Guard(device), "", "")
                    /\ Cardinality(Positions(files[fname], DeclOp)) = 1
                    /\ \A k \in Positions(files[fname], DeclOp) : k > 3

C2_Witness ==
    /\ pc = "exited"
    /\ exitCode = 0
    /\ Len(data) = 2
    /\ \A j \in DOMAIN data : Mappable(data[j].dev)

\* (C3) once generation is reached devinfo.h has been opened exactly once and holds
\* the fixed content, whatever the document
C3_SharedHeaderOnce ==
    Generating =>
        /\ Count(opened, DevinfoFileName) = 1
        /\ DevinfoFileName \in DOMAIN files
        /\ files[DevinfoFileName] =
              << Chunk("c_header", <<>>, "", ""),
                 Chunk("#ifndef DEVINFO_H_", <<>>, "", ""),
                 Chunk("# define DEVINFO_H_", <<>>, "", ""),
                 Chunk("c_definition", <<>>, "", ""),
                 Chunk("#endif/*!DEVINFO_H_*/", <<>>, "", "") >>

C3_Witness ==
    /\ pc = "exited"
    /\ exitCode = 0
    /\ \A j \in DOMAIN data : SizeIsZeroString(data[j].dev)
    /\ DOMAIN files = {DevinfoFileName}

\* (C4) a second run with the arguments and the document of the first leaves the
\* output directory as the first run left it
C4_Idempotent ==
    (run = "second" /\ pc = "exited" /\ argc = prevArgc /\ jsonfile = prevJson) =>
        /\ files = startFiles
        /\ dirExists = startDir

C4_Witness ==
    /\ run = "second"
    /\ pc = "exited"
    /\ argc = prevArgc
    /\ jsonfile = prevJson
    /\ exitCode = 0
    /\ Cardinality(DOMAIN files) >= 2

\* position of the only chunk of f written by op, 0 when there is none
PositionOf(f, op) ==
    IF Cardinality(Positions(f, op)) = 1
    THEN CHOOSE k \in Positions(f, op) : TRUE
    ELSE 0

C5_NonZeroSlots(irqs) ==
    SelectSeq([k \in 1..Len(irqs) |-> k],
              LAMBDA k : irqs[k] # [t |-> "int", s |-> "0"])

C5_Expected(dev) ==
    LET slots == C5_NonZeroSlots(dev.irqs)
    IN  [n \in 1..Len(slots) |->
            Chunk("#define", <<>>, dev.irqs[slots[n]].s, dev.irqs_literal[slots[n]].s)]

\* (C5) in every header that reached its declaration the #define lines are those of
\* the slots of irqs that are not the literal 0, with the values of irqs_literal at
\* the same index, in index order, after the #include and before the declaration;
\* irqs_literal is looked up for non-zero slots only
C5_IrqDefines ==
    /\ \A j \in DOMAIN data :
        LET dev == data[j].dev
            fname == DevFileName(data[j].name)
        IN  (Examined(j) /\ Mappable(dev) /\ Has(dev, "irqs")) =>
                /\ fname \in DOMAIN files
                /\ PositionOf(files[fname], DeclOp) # 0 =>
                      LET f == files[fname]
                          d == PositionOf(f, DeclOp)
                      IN  /\ SelectSeq(f, LAMBDA c : c.op = "#define") = C5_Expected(dev)
                          /\ Positions(f, "#define") = 5..(d - 1)
                /\ (/\ \A k \in DOMAIN dev.irqs : dev.irqs[k] = [t |-> "int", s |-> "0"]
                    /\ Len(dev.irqs) > 0
                    /\ Has(dev, "address")) =>
                      /\ j < i
                      /\ CompleteHeader(files[fname], data[j].name)
                      /\ Positions(files[fname], "#define") = {}
    /\ error = Err("KeyError", "irqs_literal") =>
          \E k \in DOMAIN data[i].dev.irqs :
              data[i].dev.irqs[k] # [t |-> "int", s |-> "0"]

C5_Witness ==
    /\ pc = "exited"
    /\ exitCode = 0
    /\ \E j \in DOMAIN data :
        /\ data[j].dev.irqs = << StrVal("UART1_IRQ"), Z, StrVal("UART1_ERR_IRQ"), Z >>
        /\ data[j].dev.irqs_literal = << IntVal("37"), Z, IntVal("38"), Z >>
        /\ SelectSeq(files[DevFileName(data[j].name)], LAMBDA c : c.op = "#define")
              = << Chunk("#define", <<>>, "UART1_IRQ", "37"),
                   Chunk("#define", <<>>, "UART1_ERR_IRQ", "38") >>
    /\ \E j \in DOMAIN data :
        /\ ~Has(data[j].dev, "irqs_literal")
        /\ Mappable(data[j].dev)

\* (C6) the gpios initializer of every header that has one holds exactly 4 pairs:
\* the device's own in source order, then { 0, 0 }; 4 times { 0, 0 } without gpios
C6_FourGpioPairs ==
    \A j \in DOMAIN data :
        LET dev == data[j].dev
            fname == DevFileName(data[j].name)
        IN  (Examined(j) /\ Mappable(dev) /\ fname \in DOMAIN files
             /\ PositionOf(files[fname], "}") # 0) =>
                LET f == files[fname]
                    p == PositionOf(f, ".gpios[] = {")
                    q == PositionOf(f, "}")
                    own == IF Has(dev, "gpios") THEN dev.gpios ELSE <<>>
                IN  /\ p # 0
                    /\ q - p - 1 = 4
                    /\ Positions(f, "{ port, pin },") = (p + 1)..(q - 1)
                    /\ \A k \in 1..4 :
                          f[p + k] = IF k <= Len(own)
                                     THEN Chunk("{ port, pin },", <<>>,
                                                own[k].port.s, own[k].pin.s)
                                     ELSE Chunk("{ port, pin },", <<>>, "0", "0")

C6_Witness ==
    /\ pc = "exited"
    /\ exitCode = 0
    /\ \E j \in DOMAIN data :
        /\ Has(data[j].dev, "gpios")
        /\ data[j].dev.gpios = << Gpio("2", "5") >>
        /\ SelectSeq(files[DevFileName(data[j].name)],
                     LAMBDA c : c.op = "{ port, pin },")
              = << Chunk("{ port, pin },", <<>>, "2", "5"),
                   Chunk("{ port, pin },", <<>>, "0", "0"),
                   Chunk("{ port, pin },", <<>>, "0", "0"),
                   Chunk("{ port, pin },", <<>>, "0", "0") >>
    /\ \E j \in DOMAIN data :
        /\ ~Has(data[j].dev, "gpios")
        /\ Mappable(data[j].dev)

\* a header cut short: the license block and the guard, no declaration, no #endif
Truncated(f) ==
    /\ Len(f) >= 2
    /\ f[1] = CHeader
    /\ f[2].op = "#ifndef"
    /\ Positions(f, DeclOp) = {}
    /\ f[Len(f)] # CFooter

\* (C7, as stated) when a device whose size is not "0" lacks irqs the run exits
\* nonzero and leaves no truncated <device>.h for it
C7_NoTruncatedHeader ==
    pc = "exited" =>
        \A j \in DOMAIN data :
            (Mappable(data[j].dev) /\ ~Has(data[j].dev, "irqs")) =>
                /\ exitCode # 0
                /\ ~ (/\ DevFileName(data[j].name) \in DOMAIN files
                      /\ Truncated(files[DevFileName(data[j].name)]))

\* (C8) a run with an argument count other than 2 prints the usage and exits with
\* status 1; it creates no directory, opens no JSON file and writes no file
C8_UsageError ==
    argc # 3 =>
        /\ dirExists = startDir
        /\ files = startFiles
        /\ opened = <<>>
        /\ ~jsonOpened
        /\ pc \in {"argv", "exited"}
        /\ pc = "exited" => (stdout = <<"usage">> /\ exitCode = 1)

C8_Witness ==
    /\ pc = "exited"
    /\ argc = 4
    /\ ~dirExists
    /\ jsonfile.kind = "object"
    /\ stdout = <<"usage">>

C9_LiteralsOk(dev) ==
    \A k \in DOMAIN dev.irqs :
        dev.irqs[k] # [t |-> "int", s |-> "0"] =>
            /\ Has(dev, "irqs_literal")
            /\ k <= Len(dev.irqs_literal)
            /\ dev.irqs_literal[k].t = "int"

\* (C9, as stated) the irqs initializer of a device whose size is not "0" lists the
\* entries of irqs, all of them and in order, for every length of irqs from 0 to 4
C9_IrqsInitializer ==
    \A j \in DOMAIN data :
        LET dev == data[j].dev
            fname == DevFileName(data[j].name)
        IN  (Examined(j) /\ Mappable(dev) /\ Has(dev, "irqs") /\ Has(dev, "address")
             /\ Len(dev.irqs) \in 0..4 /\ C9_LiteralsOk(dev)) =>
                /\ fname \in DOMAIN files
                /\ LET f == files[fname]
                       p == PositionOf(f, ".irqs[] = {")
                       q == PositionOf(f, "},")
                   IN  /\ p # 0
                       /\ q # 0
                       /\ q - p - 1 = Len(dev.irqs)
                       /\ \A k \in 1..Len(dev.irqs) : f[p + k].a = dev.irqs[k].s

\* a field the emission of dev looks up and dev lacks
LacksRequired(dev) ==
    \/ ~Has(dev, "size")
    \/ /\ dev.size # [t |-> "str", s |-> "0"]
       /\ \/ ~Has(dev, "address")
          \/ ~Has(dev, "irqs")
          \/ /\ ~Has(dev, "irqs_literal")
             /\ \E k \in DOMAIN dev.irqs : dev.irqs[k] # [t |-> "int", s |-> "0"]

HeaderNames(doc) ==
    LET kept == SelectSeq(doc, LAMBDA e : Mappable(e.dev))
    IN  [k \in 1..Len(kept) |-> kept[k].name \o <<".", "h">>]

\* (C10) devinfo.h is complete before any device is examined; the headers are
\* opened in document order; the loop never goes past a device that lacks a
\* required field: the run ends there, the earlier devices that are not skipped
\* have complete headers and no later device has a file
C10_OrderedFailFast ==
    Generating =>
        /\ opened[1] = DevinfoFileName
        /\ files[DevinfoFileName][Len(files[DevinfoFileName])].op = "#endif/*!DEVINFO_H_*/"
        /\ \E m \in 0..Len(jsonfile.doc) :
              Tail(opened) = HeaderNames(SubSeq(jsonfile.doc, 1, m))
        /\ \A j \in DOMAIN jsonfile.doc :
              LET e == jsonfile.doc[j]
              IN  /\ (j < i /\ Mappable(e.dev)) =>
                        /\ e.name \o <<".", "h">> \in DOMAIN files
                        /\ CompleteHeader(files[e.name \o <<".", "h">>], e.name)
                  /\ j < i => ~LacksRequired(e.dev)
                  /\ (j = i /\ pc = "exited" /\ LacksRequired(e.dev)) =>
                        (exitCode = 1 /\ error.kind = "KeyError")
                  /\ (j = i /\ error.kind = "KeyError") => LacksRequired(e.dev)
                  /\ j > i =>
                        /\ e.name \o <<".", "h">> \notin DOMAIN files
                        /\ Count(opened, e.name \o <<".", "h">>) = 0

C10_Witness ==
    /\ pc = "exited"
    /\ exitCode = 1
    /\ Len(data) = 2
    /\ \/ /\ i = 2
          /\ Mappable(data[1].dev)
          /\ LacksRequired(data[2].dev)
          /\ Len(opened) = 3
       \/ /\ i = 1
          /\ LacksRequired(data[1].dev)
          /\ Mappable(data[2].dev)

====
